---- MODULE Spec2Model ----
(***************************************************************************)
(* Mandelbrot viewer (src/mandelbrot_in_rust/orig.rs): the event loop of   *)
(* main, the view transform, the escape-time evaluator and the color       *)
(* mapper.  f64 and f32 values are IEEE-754 binary64 / binary32 values     *)
(* with round-to-nearest-even, computed on multi-limb naturals.            *)
(***************************************************************************)
EXTENDS Integers, Sequences, FiniteSets, TLC

(***************************************************************************)
(* Natural numbers of any size: little-endian sequences of limbs in        *)
(* 0..Base-1 with a non-zero top limb; zero is the empty sequence.         *)
(* Intermediate results are passed as operator arguments.                  *)
(***************************************************************************)
LimbBits == 15

Base == 32768

Max(a, b) == IF a >= b THEN a ELSE b

Min(a, b) == IF a <= b THEN a ELSE b

Head0(a) == IF a = <<>> THEN 0 ELSE Head(a)

Tail0(a) == IF a = <<>> THEN <<>> ELSE Tail(a)

RECURSIVE BNorm(_)
BNorm(a) ==
  IF a = <<>> THEN <<>>
  ELSE IF a[Len(a)] = 0 THEN BNorm(SubSeq(a, 1, Len(a) - 1))
  ELSE a

BFromInt(n) ==
  IF n = 0 THEN <<>>
  ELSE IF n < Base THEN <<n>>
  ELSE IF n < Base * Base THEN <<n % Base, n \div Base>>
  ELSE <<n % Base, (n \div Base) % Base, n \div (Base * Base)>>

\* a + b + c; s is the sum of the lowest limbs and the carry
RECURSIVE BAddC(_, _, _)
BAddLimb(a, b, s) == <<s % Base>> \o BAddC(Tail0(a), Tail0(b), s \div Base)

BAddC(a, b, c) ==
  IF a = <<>> /\ b = <<>> THEN (IF c = 0 THEN <<>> ELSE <<c>>)
  ELSE BAddLimb(a, b, Head0(a) + Head0(b) + c)

BAdd(a, b) == BAddC(a, b, 0)

\* a - b - c for a >= b + c; d is the difference of the lowest limbs
RECURSIVE BSubC(_, _, _)
BSubLimb(a, b, d) ==
  <<IF d < 0 THEN d + Base ELSE d>> \o BSubC(Tail(a), Tail0(b), IF d < 0 THEN 1 ELSE 0)

BSubC(a, b, c) ==
  IF a = <<>> THEN <<>> ELSE BSubLimb(a, b, Head(a) - Head0(b) - c)

BSub(a, b) == BNorm(BSubC(a, b, 0))

\* -1, 0, 1 as a < b, a = b, a > b
RECURSIVE BCmpFrom(_, _, _)
BCmpFrom(a, b, i) ==
  IF i = 0 THEN 0
  ELSE IF a[i] < b[i] THEN -1
  ELSE IF a[i] > b[i] THEN 1
  ELSE BCmpFrom(a, b, i - 1)

BCmp(a, b) ==
  IF Len(a) < Len(b) THEN -1
  ELSE IF Len(a) > Len(b) THEN 1
  ELSE BCmpFrom(a, b, Len(a))

\* a * k + c for 0 <= k < Base, 0 <= c < Base
RECURSIVE BMulSmallC(_, _, _)
BMulSmallLimb(a, k, s) == <<s % Base>> \o BMulSmallC(Tail(a), k, s \div Base)

BMulSmallC(a, k, c) ==
  IF a = <<>> THEN (IF c = 0 THEN <<>> ELSE <<c>>)
  ELSE BMulSmallLimb(a, k, Head(a) * k + c)

BMulSmall(a, k) == IF k = 0 THEN <<>> ELSE BMulSmallC(a, k, 0)

\* a * Base
BShiftLimb(a) == IF a = <<>> THEN <<>> ELSE <<0>> \o a

RECURSIVE BMul(_, _)
BMul(a, b) ==
  IF a = <<>> \/ b = <<>> THEN <<>>
  ELSE BAdd(BMulSmall(a, Head(b)), BShiftLimb(BMul(a, Tail(b))))

\* quotient limbs (not normalised) and remainder of a by d, 0 < d < Base;
\* i runs from the top limb, r is the remainder of the limbs above i
PutLimb(rest, g) == [q |-> rest.q \o <<g>>, r |-> rest.r]

NormQuotient(res) == [q |-> BNorm(res.q), r |-> res.r]

RECURSIVE BDivSmallFrom(_, _, _, _)
BDivSmallFrom(a, d, i, r) ==
  IF i = 0 THEN [q |-> <<>>, r |-> r]
  ELSE PutLimb(BDivSmallFrom(a, d, i - 1, (r * Base + a[i]) % d), (r * Base + a[i]) \div d)

BDivSmall(a, d) == NormQuotient(BDivSmallFrom(a, d, Len(a), 0))

Zeros(n) == [i \in 1..n |-> 0]

BShl(a, k) ==
  IF a = <<>> THEN <<>>
  ELSE Zeros(k \div LimbBits) \o BMulSmall(a, 2 ^ (k % LimbBits))

\* floor(a / 2^k)
BShr(a, k) ==
  IF k \div LimbBits >= Len(a) THEN <<>>
  ELSE BDivSmall(SubSeq(a, (k \div LimbBits) + 1, Len(a)), 2 ^ (k % LimbBits)).q

RECURSIVE SmallBitLen(_)
SmallBitLen(n) == IF n = 0 THEN 0 ELSE 1 + SmallBitLen(n \div 2)

BitLen(a) ==
  IF a = <<>> THEN 0 ELSE LimbBits * (Len(a) - 1) + SmallBitLen(a[Len(a)])

RECURSIVE SmallTrailingZeros(_)
SmallTrailingZeros(n) == IF n % 2 = 1 THEN 0 ELSE 1 + SmallTrailingZeros(n \div 2)

\* number of trailing zero bits of a # 0
RECURSIVE TrailingZeros(_)
TrailingZeros(a) ==
  IF Head(a) = 0 THEN LimbBits + TrailingZeros(Tail(a))
  ELSE SmallTrailingZeros(Head(a))

BIsOdd(a) == a # <<>> /\ a[1] % 2 = 1

\* the greatest g in lo..hi with g * d <= cur, where lo * d <= cur
RECURSIVE QuotientLimb(_, _, _, _)
QuotientLimb(cur, d, lo, hi) ==
  IF lo = hi THEN lo
  ELSE IF BCmp(BMulSmall(d, (lo + hi + 1) \div 2), cur) <= 0
       THEN QuotientLimb(cur, d, (lo + hi + 1) \div 2, hi)
       ELSE QuotientLimb(cur, d, lo, ((lo + hi + 1) \div 2) - 1)

\* long division of a by d # 0, one quotient limb at a time from limb i down;
\* r < d is the remainder of the limbs above i
RECURSIVE BDivModFrom(_, _, _, _)
BDivModLimb(a, d, i, cur, g) ==
  PutLimb(BDivModFrom(a, d, i - 1, BSub(cur, BMulSmall(d, g))), g)

BDivModCur(a, d, i, cur) == BDivModLimb(a, d, i, cur, QuotientLimb(cur, d, 0, Base - 1))

BDivModFrom(a, d, i, r) ==
  IF i = 0 THEN [q |-> <<>>, r |-> r]
  ELSE BDivModCur(a, d, i, BNorm(<<a[i]>> \o r))

BigRemainder(res) == [q |-> res.q, r |-> BFromInt(res.r)]

BDivMod(a, d) ==
  IF Len(d) = 1 THEN BigRemainder(BDivSmall(a, d[1]))
  ELSE NormQuotient(BDivModFrom(a, d, Len(a), <<>>))

(***************************************************************************)
(* IEEE-754 binary floating point.  A value is a record                    *)
(*   [k |-> "fin" | "inf" | "nan", s |-> sign bit, m |-> natural, e |-> Int]*)
(* standing for (-1)^s * m * 2^e; a finite non-zero value keeps m odd, so  *)
(* every value has one representation.  A format gives the precision p,    *)
(* the exponent qmin of the least subnormal and the exponent emax of the   *)
(* leading bit of the greatest finite value.                               *)
(***************************************************************************)
F64 == [p |-> 53, qmin |-> -1074, emax |-> 1023]

F32 == [p |-> 24, qmin |-> -149, emax |-> 127]

NaN == [k |-> "nan", s |-> 0, m |-> <<>>, e |-> 0]

Inf(s) == [k |-> "inf", s |-> s, m |-> <<>>, e |-> 0]

Zero(s) == [k |-> "fin", s |-> s, m |-> <<>>, e |-> 0]

IsZero(x) == x.k = "fin" /\ x.m = <<>>

Xor(s, t) == IF s = t THEN 0 ELSE 1

\* m * 2^e, m # 0, with the tz trailing zero bits of m moved into the exponent
CanonShift(s, m, e, tz) == [k |-> "fin", s |-> s, m |-> BShr(m, tz), e |-> e + tz]

Canon(s, m, e) == IF m = <<>> THEN Zero(s) ELSE CanonShift(s, m, e, TrailingZeros(m))

\* an exact m * 2^e with m of at most p bits: infinite past the largest finite
Finite(fmt, s, m, e) ==
  IF m = <<>> THEN Zero(s)
  ELSE IF e + BitLen(m) - 1 > fmt.emax THEN Inf(s)
  ELSE Canon(s, m, e)

\* m * 2^e cut to kept * 2^q: up by one unit in the last place when the first
\* bit cut off is set and either a later bit is set or kept is odd
RoundKept(fmt, s, m, sh, q, kept) ==
  Finite(fmt, s,
         IF BIsOdd(BShr(m, sh - 1)) /\ (TrailingZeros(m) < sh - 1 \/ BIsOdd(kept))
         THEN BAdd(kept, <<1>>) ELSE kept,
         q)

\* q is the exponent of the last place of the result
RoundAt(fmt, s, m, e, q) ==
  IF q <= e THEN Finite(fmt, s, m, e)
  ELSE RoundKept(fmt, s, m, q - e, q, BShr(m, q - e))

\* the value of the format nearest to (-1)^s * m * 2^e, ties to even
Round(fmt, s, m, e) ==
  IF m = <<>> THEN Zero(s)
  ELSE RoundAt(fmt, s, m, e, Max(e + BitLen(m) - fmt.p, fmt.qmin))

FromInt(n) == IF n < 0 THEN Canon(1, BFromInt(-n), 0) ELSE Canon(0, BFromInt(n), 0)

FNeg(x) == IF x.k = "nan" THEN x ELSE [x EXCEPT !.s = 1 - x.s]

FAbs(x) == IF x.k = "nan" THEN x ELSE [x EXCEPT !.s = 0]

\* a * 2^e + b * 2^e with the signs sa, sb; c compares a and b
FAddAligned(fmt, sa, a, sb, b, e, c) ==
  IF sa = sb THEN Round(fmt, sa, BAdd(a, b), e)
  ELSE IF c = 0 THEN Zero(0)
  ELSE IF c > 0 THEN Round(fmt, sa, BSub(a, b), e)
  ELSE Round(fmt, sb, BSub(b, a), e)

FAddAt(fmt, x, y, a, b, e) == FAddAligned(fmt, x.s, a, y.s, b, e, BCmp(a, b))

FAddNear(fmt, x, y, e) == FAddAt(fmt, x, y, BShl(x.m, x.e - e), BShl(y.m, y.e - e), e)

\* a term too small to reach the rounding bit of the other, moved up to three
\* bits below the other's last place: the sum rounds the same
Tiny(fmt, x, y) == [x EXCEPT !.m = <<1>>, !.e = y.e - fmt.p - 3]

\* sum of two finite non-zero values
FAddFinite(fmt, x, y) ==
  IF y.e - x.e > 2 * fmt.p + 2 THEN FAddNear(fmt, Tiny(fmt, x, y), y, y.e - fmt.p - 3)
  ELSE IF x.e - y.e > 2 * fmt.p + 2 THEN FAddNear(fmt, x, Tiny(fmt, y, x), x.e - fmt.p - 3)
  ELSE FAddNear(fmt, x, y, Min(x.e, y.e))

FAdd(fmt, x, y) ==
  IF x.k = "nan" \/ y.k = "nan" THEN NaN
  ELSE IF x.k = "inf" THEN (IF y.k = "inf" /\ y.s # x.s THEN NaN ELSE x)
  ELSE IF y.k = "inf" THEN y
  ELSE IF IsZero(x) THEN (IF IsZero(y) THEN Zero(IF x.s = 1 /\ y.s = 1 THEN 1 ELSE 0) ELSE y)
  ELSE IF IsZero(y) THEN x
  ELSE FAddFinite(fmt, x, y)

FSub(fmt, x, y) == FAdd(fmt, x, FNeg(y))

FMul(fmt, x, y) ==
  IF x.k = "nan" \/ y.k = "nan" THEN NaN
  ELSE IF x.k = "inf" \/ y.k = "inf"
       THEN (IF IsZero(x) \/ IsZero(y) THEN NaN ELSE Inf(Xor(x.s, y.s)))
  ELSE IF IsZero(x) \/ IsZero(y) THEN Zero(Xor(x.s, y.s))
  ELSE Round(fmt, Xor(x.s, y.s), BMul(x.m, y.m), x.e + y.e)

\* the quotient qr.q of x.m * 2^sh by y.m, of p + 2 bits or more; a remainder
\* only matters as one more bit below the rounding bit
FDivQuotient(fmt, x, y, sh, qr) ==
  Round(fmt, Xor(x.s, y.s),
        BAdd(BMulSmall(qr.q, 2), IF qr.r = <<>> THEN <<>> ELSE <<1>>),
        x.e - y.e - sh - 1)

FDivShifted(fmt, x, y, sh) == FDivQuotient(fmt, x, y, sh, BDivMod(BShl(x.m, sh), y.m))

FDiv(fmt, x, y) ==
  IF x.k = "nan" \/ y.k = "nan" THEN NaN
  ELSE IF x.k = "inf" THEN (IF y.k = "inf" THEN NaN ELSE Inf(Xor(x.s, y.s)))
  ELSE IF y.k = "inf" THEN Zero(Xor(x.s, y.s))
  ELSE IF IsZero(y) THEN (IF IsZero(x) THEN NaN ELSE Inf(Xor(x.s, y.s)))
  ELSE IF IsZero(x) THEN Zero(Xor(x.s, y.s))
  ELSE FDivShifted(fmt, x, y, Max(0, fmt.p + 2 + BitLen(y.m) - BitLen(x.m)))

\* -1, 0, 1 for the magnitudes of two finite non-zero values; hx and hy are
\* the exponents above their leading bits
FCmpMagAt(x, y, hx, hy) ==
  IF hx < hy THEN -1
  ELSE IF hx > hy THEN 1
  ELSE BCmp(BShl(x.m, x.e - Min(x.e, y.e)), BShl(y.m, y.e - Min(x.e, y.e)))

FCmpMag(x, y) == FCmpMagAt(x, y, x.e + BitLen(x.m), y.e + BitLen(y.m))

\* -1, 0, 1 for a finite non-zero or infinite value of either sign, 0 for zero
Sign(x) == IF IsZero(x) THEN 0 ELSE IF x.s = 1 THEN -1 ELSE 1

\* -1, 0, 1 for two values that are not NaN
FCmp(x, y) ==
  IF Sign(x) < Sign(y) THEN -1
  ELSE IF Sign(x) > Sign(y) THEN 1
  ELSE IF Sign(x) = 0 THEN 0
  ELSE IF x.k = "inf" \/ y.k = "inf"
       THEN (IF x.k = y.k THEN 0 ELSE IF x.k = "inf" THEN Sign(x) ELSE -Sign(x))
  ELSE Sign(x) * FCmpMag(x, y)

FLe(x, y) == x.k # "nan" /\ y.k # "nan" /\ FCmp(x, y) <= 0

FLt(x, y) == x.k # "nan" /\ y.k # "nan" /\ FCmp(x, y) < 0

FRemAt(x, y, e) == Canon(x.s, BDivMod(BShl(x.m, x.e - e), BShl(y.m, y.e - e)).r, e)

\* x % y of Rust: the remainder of the division truncated toward zero, exact
FRem(x, y) ==
  IF x.k # "fin" \/ y.k = "nan" \/ IsZero(y) THEN NaN
  ELSE IF y.k = "inf" \/ IsZero(x) THEN x
  ELSE IF FCmpMag(x, y) < 0 THEN x
  ELSE FRemAt(x, y, Min(x.e, y.e))

RECURSIVE BToInt(_)
BToInt(a) == IF a = <<>> THEN 0 ELSE Head(a) + Base * BToInt(Tail(a))

\* `x as i32`: toward zero, NaN to 0, out of range to the nearest bound
FToI32(x) ==
  IF x.k = "nan" THEN 0
  ELSE IF x.k = "inf" \/ (~IsZero(x) /\ x.e + BitLen(x.m) > 31)
       THEN (IF x.s = 1 THEN -2147483647 - 1 ELSE 2147483647)
  ELSE (IF x.s = 1 THEN -1 ELSE 1)
         * BToInt(IF x.e >= 0 THEN BShl(x.m, x.e) ELSE BShr(x.m, -x.e))

\* n * 2^e for an integer n
Scaled(v, e) == IF IsZero(v) THEN v ELSE [v EXCEPT !.e = v.e + e]

Dyadic(n, e) == Scaled(FromInt(n), e)

\* `n as f64`, `n as f32` of an unsigned integer
AsF64(n) == Round(F64, 0, BFromInt(n), 0)

AsF32(n) == Round(F32, 0, BFromInt(n), 0)

(***************************************************************************)
(* Constants, View and the view transform                                  *)
(***************************************************************************)
WIDTH == 800

HEIGHT == 600

MAX_ITER == 256

View_new == [center_x |-> Dyadic(-1, -1), center_y |-> Zero(0), zoom |-> FromInt(1)]

\* let aspect = WIDTH as f64 / HEIGHT as f64
aspect == FDiv(F64, AsF64(WIDTH), AsF64(HEIGHT))

\* the offset (x / size - 0.5) * range of a coordinate from the center
Offset(x, size, range) ==
  FMul(F64, FSub(F64, FDiv(F64, x, AsF64(size)), Dyadic(1, -1)), range)

\* (real, imag) for range = 3.5 / zoom
ComplexAt(view, x, y, range) ==
  <<FAdd(F64, view.center_x, FMul(F64, Offset(x, WIDTH, range), aspect)),
    FAdd(F64, view.center_y, Offset(y, HEIGHT, range))>>

\* x and y are f32 values; `x as f64` widens them without rounding
screen_to_complex(view, x, y) ==
  ComplexAt(view, x, y, FDiv(F64, Dyadic(7, -1), view.zoom))

(***************************************************************************)
(* The escape-time evaluator.  A loop state is the z_real, z_imag and iter *)
(* of mandelbrot.                                                          *)
(***************************************************************************)
MandelbrotStart == [z_real |-> Zero(0), z_imag |-> Zero(0), iter |-> 0]

\* a plausible slip: the escape threshold taken from max_iter
MandelbrotCondThresholdMaxIter(st, max_iter) ==
  /\ FLe(FAdd(F64, FMul(F64, st.z_real, st.z_real), FMul(F64, st.z_imag, st.z_imag)),
         AsF64(max_iter))
  /\ st.iter < max_iter

\* a plausible slip: the test `< 4.0`
MandelbrotCondStrict(st, max_iter) ==
  /\ FLt(FAdd(F64, FMul(F64, st.z_real, st.z_real), FMul(F64, st.z_imag, st.z_imag)),
         FromInt(4))
  /\ st.iter < max_iter

\* a plausible slip: the test `iter <= max_iter`
MandelbrotCondInclusive(st, max_iter) ==
  /\ FLe(FAdd(F64, FMul(F64, st.z_real, st.z_real), FMul(F64, st.z_imag, st.z_imag)),
         FromInt(4))
  /\ st.iter <= max_iter

\* a plausible slip: the test `iter + 1 < max_iter`
MandelbrotCondShort(st, max_iter) ==
  /\ FLe(FAdd(F64, FMul(F64, st.z_real, st.z_real), FMul(F64, st.z_imag, st.z_imag)),
         FromInt(4))
  /\ st.iter + 1 < max_iter

\* while z_real * z_real + z_imag * z_imag <= 4.0 && iter < max_iter
MandelbrotCond(st, max_iter) ==
  /\ FLe(FAdd(F64, FMul(F64, st.z_real, st.z_real), FMul(F64, st.z_imag, st.z_imag)),
         FromInt(4))
  /\ st.iter < max_iter

\* one pass through the loop body; iter < max_iter <= 2^32 - 1 here, so
\* iter + 1 stays a u32
MandelbrotBody(st, c_real, c_imag) ==
  [z_real |-> FAdd(F64, FSub(F64, FMul(F64, st.z_real, st.z_real),
                                  FMul(F64, st.z_imag, st.z_imag)), c_real),
   z_imag |-> FAdd(F64, FMul(F64, FMul(F64, FromInt(2), st.z_real), st.z_imag), c_imag),
   iter   |-> st.iter + 1]

RECURSIVE MandelbrotLoop(_, _, _, _)
MandelbrotLoop(st, c_real, c_imag, max_iter) ==
  IF MandelbrotCond(st, max_iter)
  THEN MandelbrotLoop(MandelbrotBody(st, c_real, c_imag), c_real, c_imag, max_iter)
  ELSE st.iter

mandelbrot(c_real, c_imag, max_iter) ==
  MandelbrotLoop(MandelbrotStart, c_real, c_imag, max_iter)

(***************************************************************************)
(* The color mapper: f32 arithmetic                                        *)
(***************************************************************************)
Color_new(r, g, b, a) == [r |-> r, g |-> g, b |-> b, a |-> a]

BLACK == Color_new(Zero(0), Zero(0), Zero(0), FromInt(1))

\* 0.8 as an f32: 13421773 * 2^-24
Saturation == Dyadic(13421773, -24)

\* a plausible slip: the value not capped at 1.0
ColorValueUncapped(t) == FMul(F32, t, FromInt(2))

\* let v = if t < 0.5 { t * 2.0 } else { 1.0 }
ColorValue(t) == IF FLt(t, Dyadic(1, -1)) THEN FMul(F32, t, FromInt(2)) ELSE FromInt(1)

\* (hue / 60.0) as i32
HueSector(hue) == FToI32(FDiv(F32, hue, FromInt(60)))

\* the match on the sector and Color::new(r + m, g + m, b + m, 1.0)
ColorOfSector(k, c, x, m) ==
  IF k = 0 THEN Color_new(FAdd(F32, c, m), FAdd(F32, x, m), FAdd(F32, Zero(0), m), FromInt(1))
  ELSE IF k = 1
  THEN Color_new(FAdd(F32, x, m), FAdd(F32, c, m), FAdd(F32, Zero(0), m), FromInt(1))
  ELSE IF k = 2
  THEN Color_new(FAdd(F32, Zero(0), m), FAdd(F32, c, m), FAdd(F32, x, m), FromInt(1))
  ELSE IF k = 3
  THEN Color_new(FAdd(F32, Zero(0), m), FAdd(F32, x, m), FAdd(F32, c, m), FromInt(1))
  ELSE IF k = 4
  THEN Color_new(FAdd(F32, x, m), FAdd(F32, Zero(0), m), FAdd(F32, c, m), FromInt(1))
  ELSE Color_new(FAdd(F32, c, m), FAdd(F32, Zero(0), m), FAdd(F32, x, m), FromInt(1))

\* let x = c * (1.0 - ((hue / 60.0) % 2.0 - 1.0).abs())
ColorX(hue, c) ==
  FMul(F32, c,
       FSub(F32, FromInt(1),
            FAbs(FSub(F32, FRem(FDiv(F32, hue, FromInt(60)), FromInt(2)), FromInt(1)))))

\* c = v * s, x, m = v - c
ColorOfChroma(hue, v, c) == ColorOfSector(HueSector(hue), c, ColorX(hue, c), FSub(F32, v, c))

ColorOfHueValue(hue, v) == ColorOfChroma(hue, v, FMul(F32, v, Saturation))

\* hue = t * 360.0, v
ColorOfT(t) == ColorOfHueValue(FMul(F32, t, FromInt(360)), ColorValue(t))

color_from_iter(iter, max_iter) ==
  IF iter = max_iter THEN BLACK
  ELSE ColorOfT(FDiv(F32, AsF32(iter), AsF32(max_iter)))

(***************************************************************************)
(* State.  The event loop of main: view, texture, rendering and the place  *)
(* pc the loop is at.  clicks counts the clicks handled since the last     *)
(* reset, up to MaxClicks.  trip is a history variable: whether the last   *)
(* click handled was a left click ("in") or a right click that came right  *)
(* after a left click at the same pixel ("out"), with the zoom before that *)
(* left click.  esc is one call of mandelbrot in progress and col one call *)
(* of color_from_iter.                                                     *)
(***************************************************************************)
VARIABLES view, texture, rendering, pc, clicks, trip, esc, col

vars == <<view, texture, rendering, pc, clicks, trip, esc, col>>

MaxClicks == 4

MaxIterBound == 4

\* mouse positions of the clicks: the center of the window and a point off it
Centre == <<AsF32(WIDTH \div 2), AsF32(HEIGHT \div 2)>>

ClickPositions == {Centre, <<AsF32(200), AsF32(450)>>}

\* the pixels of the WIDTH x HEIGHT raster that the model keeps
RasterPixels == {<<0, 0>>, <<WIDTH \div 2, HEIGHT \div 2>>}

(***************************************************************************)
(* render_mandelbrot: a fresh raster, every kept pixel computed from the   *)
(* view.  A pixel is kept as the call that colors it,                      *)
(* color_from_iter(mandelbrot(c_real, c_imag, MAX_ITER), MAX_ITER), given  *)
(* by its arguments: mandelbrot and color_from_iter are functions of them. *)
(***************************************************************************)
PixelAt(c) == [c_real |-> c[1], c_imag |-> c[2], max_iter |-> MAX_ITER]

render_mandelbrot(v) ==
  [p \in RasterPixels |-> PixelAt(screen_to_complex(v, AsF32(p[1]), AsF32(p[2])))]

NoTrip == [phase |-> "none"]

Idle == [pc |-> "idle"]

InitLoop ==
  /\ view = View_new
  /\ texture = render_mandelbrot(View_new)
  /\ rendering = FALSE
  /\ pc = "left"
  /\ clicks = 0
  /\ trip = NoTrip
  /\ esc = Idle
  /\ col = Idle

\* view.center_x = new_x; view.center_y = new_y; and the zoom scaled to z
ViewAt(new, z) == [center_x |-> new[1], center_y |-> new[2], zoom |-> z]

\* the view after a click at mouse position pos that scales the zoom to z
Recentered(pos, z) == ViewAt(screen_to_complex(view, pos[1], pos[2]), z)

\* is_mouse_button_pressed(Left) && !rendering holds, down to view.zoom *= 2.0
LeftClick(pos) ==
  /\ pc = "left"
  /\ ~rendering
  /\ rendering' = TRUE
  /\ view' = Recentered(pos, FMul(F64, view.zoom, FromInt(2)))
  /\ trip' = [phase |-> "in", zoom |-> view.zoom, pos |-> pos]
  /\ clicks' = Min(clicks + 1, MaxClicks)
  /\ pc' = "left_render"
  /\ UNCHANGED <<texture, esc, col>>

\* a plausible slip: the texture is not replaced
LeftRenderStale ==
  /\ pc = "left_render"
  /\ rendering' = FALSE
  /\ pc' = "right"
  /\ UNCHANGED <<view, texture, clicks, trip, esc, col>>

\* the render of the left click, texture = ..., rendering = false
LeftRender ==
  /\ pc = "left_render"
  /\ texture' = render_mandelbrot(view)
  /\ rendering' = FALSE
  /\ pc' = "right"
  /\ UNCHANGED <<view, clicks, trip, esc, col>>

\* the condition of the left click is false: nothing pressed, or rendering
LeftSkip ==
  /\ pc = "left"
  /\ pc' = "right"
  /\ UNCHANGED <<view, texture, rendering, clicks, trip, esc, col>>

RightClick(pos) ==
  /\ pc = "right"
  /\ ~rendering
  /\ rendering' = TRUE
  /\ view' = Recentered(pos, FDiv(F64, view.zoom, FromInt(2)))
  /\ trip' = IF trip.phase = "in" /\ trip.pos = pos
             THEN [trip EXCEPT !.phase = "out"] ELSE NoTrip
  /\ clicks' = Min(clicks + 1, MaxClicks)
  /\ pc' = "right_render"
  /\ UNCHANGED <<texture, esc, col>>

\* a plausible slip: rendering is left set
RightRenderKeepsFlag ==
  /\ pc = "right_render"
  /\ texture' = render_mandelbrot(view)
  /\ pc' = "reset"
  /\ UNCHANGED <<view, rendering, clicks, trip, esc, col>>

RightRender ==
  /\ pc = "right_render"
  /\ texture' = render_mandelbrot(view)
  /\ rendering' = FALSE
  /\ pc' = "reset"
  /\ UNCHANGED <<view, clicks, trip, esc, col>>

RightSkip ==
  /\ pc = "right"
  /\ pc' = "reset"
  /\ UNCHANGED <<view, texture, rendering, clicks, trip, esc, col>>

\* a plausible slip: only the zoom is reset
ResetKeyZoomOnly ==
  /\ pc = "reset"
  /\ ~rendering
  /\ rendering' = TRUE
  /\ view' = [view EXCEPT !.zoom = View_new.zoom]
  /\ trip' = NoTrip
  /\ clicks' = 0
  /\ pc' = "reset_render"
  /\ UNCHANGED <<texture, esc, col>>

\* is_key_pressed(R) && !rendering holds, down to view = View::new()
ResetKey ==
  /\ pc = "reset"
  /\ ~rendering
  /\ rendering' = TRUE
  /\ view' = View_new
  /\ trip' = NoTrip
  /\ clicks' = 0
  /\ pc' = "reset_render"
  /\ UNCHANGED <<texture, esc, col>>

ResetRender ==
  /\ pc = "reset_render"
  /\ texture' = render_mandelbrot(view)
  /\ rendering' = FALSE
  /\ pc' = "draw"
  /\ UNCHANGED <<view, clicks, trip, esc, col>>

ResetSkip ==
  /\ pc = "reset"
  /\ pc' = "draw"
  /\ UNCHANGED <<view, texture, rendering, clicks, trip, esc, col>>

\* draw_texture_ex, draw_text and next_frame().await: the next pass
Draw ==
  /\ pc = "draw"
  /\ pc' = "left"
  /\ UNCHANGED <<view, texture, rendering, clicks, trip, esc, col>>

\* the event loop with clicks at ClickPositions, MaxClicks clicks between resets
Next ==
  \/ \E pos \in ClickPositions : clicks < MaxClicks /\ LeftClick(pos)
  \/ LeftRender
  \/ LeftSkip
  \/ \E pos \in ClickPositions : clicks < MaxClicks /\ RightClick(pos)
  \/ RightRender
  \/ RightSkip
  \/ ResetKey
  \/ ResetRender
  \/ ResetSkip
  \/ Draw

Spec == InitLoop /\ [][Next]_vars

\* the event loop with any number of clicks, all at the center of the window
NextDeep ==
  \/ LeftClick(Centre)
  \/ LeftRender
  \/ LeftSkip
  \/ RightClick(Centre)
  \/ RightRender
  \/ RightSkip
  \/ ResetKey
  \/ ResetRender
  \/ ResetSkip
  \/ Draw

SpecDeep == InitLoop /\ [][NextDeep]_vars

(***************************************************************************)
(* One call of mandelbrot, a pass of the loop at a time                    *)
(***************************************************************************)
\* the points c the evaluator is called at: inside the set, outside it,
\* on the circle |c| = 2, too large to square, infinite and NaN
Points ==
  { <<Zero(0), Zero(0)>>,
    <<FromInt(2), Zero(0)>>,
    <<FromInt(-2), Zero(0)>>,
    <<FromInt(1), Zero(0)>>,
    <<Zero(0), FromInt(1)>>,
    <<Dyadic(-1, -1), Zero(0)>>,
    <<Dyadic(1, -1), Dyadic(1, -1)>>,
    <<Dyadic(-5, -2), Dyadic(1, -2)>>,
    <<Dyadic(-1, -3), Dyadic(3, -2)>>,
    <<FromInt(3), FromInt(4)>>,
    <<Dyadic(1, 700), Zero(0)>>,
    <<Inf(0), Zero(0)>>,
    <<NaN, Zero(0)>> }

MaxIters == (0..MaxIterBound) \cup {MAX_ITER}

Unused ==
  /\ view = View_new
  /\ texture = render_mandelbrot(View_new)
  /\ rendering = FALSE
  /\ pc = "idle"
  /\ clicks = 0
  /\ trip = NoTrip

InitEscape ==
  /\ Unused
  /\ col = Idle
  /\ \E c \in Points, m \in MaxIters :
       esc = [c_real |-> c[1], c_imag |-> c[2], max_iter |-> m,
              st |-> MandelbrotStart, pc |-> "loop"]

MandelbrotIterate ==
  /\ esc.pc = "loop"
  /\ MandelbrotCond(esc.st, esc.max_iter)
  /\ esc' = [esc EXCEPT !.st = MandelbrotBody(esc.st, esc.c_real, esc.c_imag)]
  /\ UNCHANGED <<view, texture, rendering, pc, clicks, trip, col>>

\* the loop is left and iter returned
MandelbrotReturn ==
  /\ esc.pc = "loop"
  /\ ~MandelbrotCond(esc.st, esc.max_iter)
  /\ esc' = [esc EXCEPT !.pc = "done"]
  /\ UNCHANGED <<view, texture, rendering, pc, clicks, trip, col>>

NextEscape == MandelbrotIterate \/ MandelbrotReturn

SpecEscape == InitEscape /\ [][NextEscape]_vars

(***************************************************************************)
(* One call of color_from_iter                                             *)
(***************************************************************************)
InitColor ==
  /\ Unused
  /\ esc = Idle
  /\ \E n \in 0..MAX_ITER : col = [iter |-> n, max_iter |-> MAX_ITER, pc |-> "call"]

ColorFromIter ==
  /\ col.pc = "call"
  /\ col' = [iter |-> col.iter, max_iter |-> col.max_iter, pc |-> "done",
             color |-> color_from_iter(col.iter, col.max_iter)]
  /\ UNCHANGED <<view, texture, rendering, pc, clicks, trip, esc>>

NextColor == ColorFromIter

SpecColor == InitColor /\ [][NextColor]_vars

(***************************************************************************)
(* Properties                                                              *)
(***************************************************************************)

\* C1: in every state reachable by left clicks, right clicks and resets,
\* view.zoom is strictly greater than 0.
ZoomStrictlyPositive == FLt(Zero(0), view.zoom)

\* C2: the reset handler leaves the view exactly at center_x = -0.5,
\* center_y = 0.0, zoom = 1.0, whatever the view was before: both of its
\* steps, the assignment and the render after it, end in that view.
ResetRestoresDefaultView ==
  [][(pc \in {"reset", "reset_render"} /\ pc' \in {"reset_render", "draw"} /\ rendering # rendering')
       => /\ view'.center_x = [k |-> "fin", s |-> 1, m |-> <<1>>, e |-> -1]
          /\ view'.center_y = [k |-> "fin", s |-> 0, m |-> <<>>, e |-> 0]
          /\ view'.zoom = [k |-> "fin", s |-> 0, m |-> <<1>>, e |-> 0]]_vars

\* the reset handler between its assignment and its render, the texture
\* still the raster of a view that clicks had moved or scaled
ResetFromMovedView ==
  /\ pc = "reset_render"
  /\ rendering
  /\ view = View_new
  /\ texture # render_mandelbrot(View_new)

\* C3: a left click followed at once by a right click at the same pixel
\* returns view.zoom to the value it had before the two clicks.
ZoomRoundTrip == trip.phase = "out" => view.zoom = trip.zoom

\* C9: wherever the loop tests an input event (and where it draws) the
\* rendering flag is false: each handler that set it has reset it, so the
\* `!rendering` condition never blocks an event.
RenderingClearAtEveryTest ==
  pc \in {"left", "right", "reset", "draw"} => rendering = FALSE

\* a handler has run (the flag was set and the render is done) and the loop
\* is at the next test
HandlerDoneAtNextTest == pc = "right" /\ trip.phase = "in" /\ ~rendering

\* C10: at every draw the texture is the raster rendered from the current
\* view, and the render steps leave the view unchanged.
DrawShowsCurrentView ==
  /\ [](pc = "draw" => texture = render_mandelbrot(view))
  /\ [][(pc \in {"left_render", "right_render", "reset_render"} => (view' = view))]_vars

\* a draw in a pass that handled a left click and then a right click
DrawAfterTwoClicks ==
  /\ pc = "draw"
  /\ trip.phase = "out"
  /\ view # View_new
  /\ texture # render_mandelbrot(View_new)

\* C4: the count mandelbrot returns is in 0..max_iter.
EscapeTimeInRange ==
  esc.pc = "done" => (0 <= esc.st.iter /\ esc.st.iter <= esc.max_iter)

\* a call at a point inside the set has run out of iterations and returned
EscapeTimeReturned ==
  /\ esc.pc = "done"
  /\ esc.max_iter = MAX_ITER
  /\ esc.st.iter = MAX_ITER
  /\ esc.c_imag = FromInt(1)

\* C5 as stated: mandelbrot(2.0, 0.0, 256) returns 0 or 1.
EscapeAtTwoIsAtMostOne ==
  (esc.pc = "done" /\ esc.c_real = FromInt(2) /\ esc.c_imag = Zero(0)
     /\ esc.max_iter = MAX_ITER)
    => esc.st.iter <= 1

\* C5 as amended: mandelbrot(2.0, 0.0, 256) returns 2; after the first pass
\* |z|^2 = 4.0 still passes `<= 4.0`, the second pass gives z = 6.
EscapeAtTwoIsTwo ==
  (esc.pc = "done" /\ esc.c_real = FromInt(2) /\ esc.c_imag = Zero(0)
     /\ esc.max_iter = MAX_ITER)
    => esc.st.iter = 2

EscapeAtTwoReturned ==
  /\ esc.pc = "done"
  /\ esc.c_real = FromInt(2)
  /\ esc.c_imag = Zero(0)
  /\ esc.max_iter = MAX_ITER

\* C6: a call that returned k < max_iter returns k for every larger max_iter.
EscapeTimePrefix ==
  (esc.pc = "done" /\ esc.st.iter < esc.max_iter)
    => \A m \in MaxIters :
         m >= esc.max_iter => mandelbrot(esc.c_real, esc.c_imag, m) = esc.st.iter

\* a point that escaped after several passes, short of max_iter
EscapedBeforeMaxIter ==
  /\ esc.pc = "done"
  /\ esc.st.iter >= 2
  /\ esc.st.iter < esc.max_iter
  /\ esc.max_iter < MAX_ITER

\* C7: for every max_iter >= 1, mandelbrot(0, 0, max_iter) returns max_iter.
OriginNeverEscapes ==
  (esc.pc = "done" /\ esc.c_real = Zero(0) /\ esc.c_imag = Zero(0) /\ esc.max_iter >= 1)
    => esc.st.iter = esc.max_iter

OriginReturned ==
  /\ esc.pc = "done"
  /\ esc.c_real = Zero(0)
  /\ esc.c_imag = Zero(0)
  /\ esc.max_iter = MAX_ITER
  /\ esc.st.iter = MAX_ITER

\* C8: for every n in 0..MAX_ITER the red, green and blue of
\* color_from_iter(n, MAX_ITER) are in [0, 1].
InUnitInterval(x) == FLe(Zero(0), x) /\ FLe(x, FromInt(1))

ChannelsInUnitInterval ==
  col.pc = "done"
    => InUnitInterval(col.color.r) /\ InUnitInterval(col.color.g) /\ InUnitInterval(col.color.b)

\* a color of the last hue sector, at full value
LastSectorColored ==
  /\ col.pc = "done"
  /\ col.iter = MAX_ITER - 1
  /\ col.color.r = FromInt(1)
  /\ col.color.g # col.color.r

====
